---- MODULE Spec2Model ----
(***************************************************************************)
(* Model of the users microservice: the resolvers of queries.py and        *)
(* mutations.py acting on the db.users collection, with the validators of  *)
(* models.User.                                                            *)
(*                                                                         *)
(* Python strings are tuples of one-character strings, so that lower(),    *)
(* phone parsing and phone formatting are computed character by character. *)
(* An Optional[str] that is None is the tuple None, which is no string of  *)
(* one-character elements.                                                 *)
(***************************************************************************)
EXTENDS Naturals, Sequences, FiniteSets

VARIABLES users, inter_communication_secret, last,
          requests, unique_index, listing

vars == <<users, inter_communication_secret, last,
          requests, unique_index, listing>>

\* Largest number of documents the collection holds in the model.
MaxDocs == 2

None == <<"None">>

------------------------------------------------------------------------------
\* Strings used as inputs.

uid_alice == <<"a", "l">>
uid_Alice == <<"A", "l">>
uid_bob == <<"b", "o">>

role_public == <<"p", "u", "b", "l", "i", "c">>
role_club == <<"c", "l", "u", "b">>
role_cc == <<"c", "c">>
role_slc == <<"s", "l", "c">>
role_slo == <<"s", "l", "o">>
role_admin == <<"a", "d", "m", "i", "n">>

phone_plain == <<"9", "8", "7", "6", "5", "4", "3", "2", "1", "0">>
phone_intl ==
    <<"+", "9", "1", " ", "9", "8", "7", "6", "5", " ", "4", "3", "2", "1", "0">>
phone_short == <<"1", "2", "3", "4", "5">>
phone_letters == <<"a", "b", "c">>

img_url == <<"i">>

secret_one == <<"s", "1">>
secret_two == <<"s", "2">>

\* Target identifiers a request may carry (UserInput.uid, RoleInput.uid,
\* UserDataInput.uid).
TargetUids == {uid_alice, uid_Alice}

\* RoleInput.role is a free string.
RoleInputs == {role_club, role_admin}

\* UserDataInput.phone and UserDataInput.img.
PhoneInputs == {phone_plain, phone_intl, phone_short, phone_letters}
ImgInputs == {img_url}

\* Secrets a caller may supply, and values of INTER_COMMUNICATION_SECRET.
SecretInputs == {None, secret_one, secret_two}
SecretConfigs == {None, secret_one}

\* role argument of usersByRole.
RoleQueries == {role_public, role_club}

------------------------------------------------------------------------------
\* Context.user: {} when the request carries no "user" header, else the dict
\* the gateway attached. (None, for a context without a request, is falsy
\* like {} and does not occur for a request served over HTTP.)

EmptyUser == [kind |-> "empty", uid |-> None, role |-> None]

GatewayUser(uid, role) == [kind |-> "dict", uid |-> uid, role |-> role]

ContextUsers ==
    {EmptyUser,
     GatewayUser(uid_alice, role_public),
     GatewayUser(uid_bob, role_club),
     GatewayUser(uid_bob, role_slo),
     GatewayUser(uid_bob, role_slc),
     GatewayUser(uid_bob, role_cc)}

\* Python truthiness of info.context.user: {} is falsy.
Truthy(user) == user.kind = "dict"

------------------------------------------------------------------------------
\* str.lower()

LowerChar(c) ==
    CASE c = "A" -> "a"
      [] c = "B" -> "b"
      [] c = "C" -> "c"
      [] OTHER -> c

Lower(s) == [i \in 1..Len(s) |-> LowerChar(s[i])]

\* models.User validators

transform_uid(v) == Lower(v)

ValidRoles == {role_public, role_club, role_cc, role_slc, role_slo}

\* constrain_role raises ValueError unless the lowercased role is known.
RoleRaises(v) == Lower(v) \notin ValidRoles

constrain_role(v) == Lower(v)

\* phonenumbers.parse(v, "IN"), reduced to the metadata of region IN: the
\* country code 91, the national prefix 0 and ten-digit mobile numbers.

IsDigit(c) == c \in {"0", "1", "2", "3", "4", "5", "6", "7", "8", "9"}

IsPhonePunctuation(c) == c \in {"+", " ", "-"}

DigitsOf(v) == SelectSeq(v, IsDigit)

\* parse raises NumberParseException when the string is no viable number.
ParseRaises(v) ==
    \/ \E i \in 1..Len(v) : ~IsDigit(v[i]) /\ ~IsPhonePunctuation(v[i])
    \/ Len(DigitsOf(v)) < 2
    \/ /\ v[1] = "+"
       /\ SubSeq(DigitsOf(v), 1, 2) # <<"9", "1">>

\* The national number of the parsed PhoneNumber.
NationalNumber(v) ==
    LET d == DigitsOf(v)
    IN  IF v[1] = "+" THEN SubSeq(d, 3, Len(d))
        ELSE IF d[1] = "0" THEN SubSeq(d, 2, Len(d))
        ELSE d

\* phonenumbers.is_valid_number
is_valid_number(nn) == Len(nn) = 10 /\ nn[1] \in {"6", "7", "8", "9"}

\* phonenumbers.format_number(phone, INTERNATIONAL)
format_number(nn) ==
    <<"+", "9", "1", " ">> \o SubSeq(nn, 1, 5) \o <<" ">> \o SubSeq(nn, 6, 10)

\* A validator that forgets the is_valid_number test.
PhoneRaises_parse_only(v) == v # None /\ v # <<>> /\ ParseRaises(v)

\* constrain_phone raises ValueError for an unparsable or invalid number.
PhoneRaises(v) ==
    /\ v # None
    /\ v # <<>>
    /\ \/ ParseRaises(v)
       \/ ~is_valid_number(NationalNumber(v))

constrain_phone(v) ==
    IF v = None \/ v = <<>> THEN None ELSE format_number(NationalNumber(v))

\* User(**data) raises ValidationError when a field validator raises.
UserRaises(data) == RoleRaises(data.role) \/ PhoneRaises(data.phone)

\* User(uid=..., img=..., role=..., phone=...) after validation.
User(uid, img, role, phone) ==
    [uid |-> transform_uid(uid),
     img |-> img,
     role |-> constrain_role(role),
     phone |-> constrain_phone(phone)]

\* User(uid=...) with the defaults of the model's fields.
NewUser(uid) == User(uid, None, role_public, None)

\* User.model_validate(document)
model_validate(doc) == User(doc.uid, doc.img, doc.role, doc.phone)

------------------------------------------------------------------------------
\* The db.users collection: documents in insertion order. No unique index is
\* created on it, so insert_one accepts any document.

Matching(coll, field, value) == {i \in 1..Len(coll) : coll[i][field] = value}

FirstMatch(coll, field, value) ==
    CHOOSE i \in Matching(coll, field, value) :
        \A j \in Matching(coll, field, value) : i <= j

\* find_one({"uid": uid}) is truthy
Found(coll, uid) == Matching(coll, "uid", uid) # {}

find_one(coll, uid) == coll[FirstMatch(coll, "uid", uid)]

insert_one(coll, doc) == Append(coll, doc)

\* update_one({"uid": uid}, {"$set": fields}) changes the first match only.
update_one(coll, uid, fields) ==
    IF ~Found(coll, uid) THEN coll
    ELSE [coll EXCEPT ![FirstMatch(coll, "uid", uid)] =
             [f \in DOMAIN @ |-> IF f \in DOMAIN fields THEN fields[f] ELSE @[f]]]

\* find({"role": role})
find_by_role(coll, role) == SelectSeq(coll, LAMBDA d : d.role = role)

------------------------------------------------------------------------------
\* The last request and its response: result is the value returned or the
\* exception raised, ret the records of the response.

Response(op, user, uid, role, img, phone, secret, result, ret) ==
    [op |-> op, user |-> user, uid |-> uid, role |-> role, img |-> img,
     phone |-> phone, secret |-> secret, result |-> result, ret |-> ret]

\* No usersByList call in progress.
NoListing ==
    [userInputs |-> <<>>, searched |-> <<>>, results |-> <<>>,
     resultUids |-> <<>>, profiles |-> <<>>, i |-> 1, returned |-> FALSE]

\* The state the resolvers run one at a time from: an empty collection
\* without a unique index, no request in progress.
Init ==
    /\ users = <<>>
    /\ inter_communication_secret \in SecretConfigs
    /\ last = Response("init", EmptyUser, None, None, None, None, None,
                       "init", <<>>)
    /\ requests = <<>>
    /\ unique_index = FALSE
    /\ listing = NoListing

\* queries.py reads the same environment variable into its own global.
inter_communication_secret_global == inter_communication_secret

\* The identifier userMeta looks up: the input's, else the caller's own.
ResolveTarget(user, userInput) ==
    IF userInput # None THEN userInput
    ELSE IF Truthy(user) THEN user.uid
    ELSE None

\* userMeta hides the phone from a caller that is neither privileged nor
\* the owner.
HidePhone(user, target) ==
    \/ ~Truthy(user)
    \/ /\ user.role \notin {role_cc, role_slo, role_slc, role_club}
       /\ user.uid # target

Redact(user, target, found_user) ==
    [found_user EXCEPT !.uid = target,
                       !.phone = IF HidePhone(user, target) THEN None ELSE @]

userMeta(user, userInput) ==
    LET raw == ResolveTarget(user, userInput)
        target == Lower(raw)
        answer(result, ret) ==
            Response("userMeta", user, userInput, None, None, None, None,
                     result, ret)
    IN  IF raw = None
        THEN /\ last' = answer("Null", <<>>)
             /\ UNCHANGED <<users, inter_communication_secret>>
        ELSE IF Found(users, target)
        THEN /\ last' =
                  IF UserRaises(find_one(users, target))
                  THEN answer("ValidationError", <<>>)
                  ELSE answer("Returned",
                         <<Redact(user, target,
                                  model_validate(find_one(users, target)))>>)
             /\ UNCHANGED <<users, inter_communication_secret>>
        ELSE /\ Len(users) < MaxDocs
             /\ users' = insert_one(users, NewUser(target))
             /\ last' = answer("Returned",
                               <<Redact(user, target, NewUser(target))>>)
             /\ UNCHANGED inter_communication_secret

UserMeta == \E user \in ContextUsers, userInput \in TargetUids \cup {None} :
    /\ userMeta(user, userInput)
    /\ UNCHANGED <<requests, unique_index, listing>>

\* A role check that also lets club accounts assign roles.
IsAdmin_club(user) == user.role \in {role_cc, role_club}

\* updateRole may be called only by a caller whose role is cc.
IsAdmin(user) == user.role \in {role_cc}

\* The check of the secret in updateRole.
SecretMismatch(supplied, configured) == supplied # configured

updateRole(user, uid, role, secret) ==
    LET answer(result) ==
            Response("updateRole", user, uid, role, None, None, secret,
                     result, <<>>)
    IN  IF ~Truthy(user)
        THEN /\ last' = answer("NotLoggedIn")
             /\ UNCHANGED <<users, inter_communication_secret>>
        ELSE IF ~IsAdmin(user)
        THEN /\ last' = answer("Forbidden")
             /\ UNCHANGED <<users, inter_communication_secret>>
        ELSE IF SecretMismatch(secret, inter_communication_secret)
        THEN /\ last' = answer("InvalidSecret")
             /\ UNCHANGED <<users, inter_communication_secret>>
        ELSE /\ Found(users, uid) \/ Len(users) < MaxDocs
             /\ users' =
                  update_one(IF Found(users, uid) THEN users
                             ELSE insert_one(users, NewUser(uid)),
                             uid, [role |-> role])
             /\ last' = answer("True")
             /\ UNCHANGED inter_communication_secret

UpdateRole ==
    \E user \in ContextUsers, uid \in TargetUids, role \in RoleInputs,
       secret \in SecretInputs :
        /\ updateRole(user, uid, role, secret)
        /\ UNCHANGED <<requests, unique_index, listing>>

\* An access check that also lets slo accounts write phones.
CanUpdatePhone_slo(user, uid) ==
    user.role \in {role_cc, role_club, role_slo} \/ user.uid = uid

\* updateUserPhone is open to cc, club and the owner.
CanUpdatePhone(user, uid) ==
    user.role \in {role_cc, role_club} \/ user.uid = uid

updateUserPhone(user, uid, img, phone) ==
    LET answer(result) ==
            Response("updateUserPhone", user, uid, None, img, phone, None,
                     result, <<>>)
    IN  IF ~Truthy(user)
        THEN /\ last' = answer("NotLoggedIn")
             /\ UNCHANGED <<users, inter_communication_secret>>
        ELSE IF UserRaises([role |-> role_public, phone |-> phone])
        THEN /\ last' = answer("InvalidPhone")
             /\ UNCHANGED <<users, inter_communication_secret>>
        ELSE IF ~CanUpdatePhone(user, uid)
        THEN /\ last' = answer("Forbidden")
             /\ UNCHANGED <<users, inter_communication_secret>>
        ELSE /\ users' = update_one(users, uid, [phone |-> phone])
             /\ last' = answer("True")
             /\ UNCHANGED inter_communication_secret

UpdateUserPhone ==
    \E user \in ContextUsers, uid \in TargetUids, phone \in PhoneInputs :
        /\ updateUserPhone(user, uid, None, phone)
        /\ UNCHANGED <<requests, unique_index, listing>>

\* updateUserData is open to cc and the owner.
CanUpdateData(user, uid) ==
    ~(user.role \notin {role_cc} /\ user.uid # uid)

updateUserData(user, uid, img, phone) ==
    LET answer(result) ==
            Response("updateUserData", user, uid, None, img, phone, None,
                     result, <<>>)
    IN  IF ~Truthy(user)
        THEN /\ last' = answer("NotLoggedIn")
             /\ UNCHANGED <<users, inter_communication_secret>>
        ELSE IF ~CanUpdateData(user, uid)
        THEN /\ last' = answer("Forbidden")
             /\ UNCHANGED <<users, inter_communication_secret>>
        ELSE IF UserRaises([role |-> role_public, phone |-> phone])
        THEN /\ last' = answer("InvalidPhone")
             /\ UNCHANGED <<users, inter_communication_secret>>
        ELSE /\ users' = update_one(users, uid, [img |-> img, phone |-> phone])
             /\ last' = answer("True")
             /\ UNCHANGED inter_communication_secret

UpdateUserData ==
    \E user \in ContextUsers, uid \in TargetUids, img \in ImgInputs,
       phone \in PhoneInputs :
        /\ updateUserData(user, uid, img, phone)
        /\ UNCHANGED <<requests, unique_index, listing>>

\* The secret usersByRole compares: a cc caller's is replaced by the
\* configured one.
EffectiveSecret(user, secret) ==
    IF Truthy(user) /\ user.role \in {role_cc}
    THEN inter_communication_secret_global
    ELSE secret

usersByRole(user, role, secret) ==
    LET answer(result, ret) ==
            Response("usersByRole", user, None, role, None, None, secret,
                     result, ret)
        found == find_by_role(users, role)
    IN  /\ last' =
             IF EffectiveSecret(user, secret) # inter_communication_secret_global
             THEN answer("InvalidSecret", <<>>)
             ELSE IF \E i \in 1..Len(found) : UserRaises(found[i])
             THEN answer("ValidationError", <<>>)
             ELSE answer("Returned",
                         [i \in 1..Len(found) |-> model_validate(found[i])])
        /\ UNCHANGED <<users, inter_communication_secret>>

UsersByRole ==
    \E user \in ContextUsers, role \in RoleQueries, secret \in SecretInputs :
        /\ usersByRole(user, role, secret)
        /\ UNCHANGED <<requests, unique_index, listing>>

Next ==
    \/ UserMeta
    \/ UpdateRole
    \/ UpdateUserPhone
    \/ UpdateUserData
    \/ UsersByRole

Spec == Init /\ [][Next]_vars

------------------------------------------------------------------------------
\* Vocabulary of the properties.

Authenticated(user) == user.kind = "dict"

\* Phone inputs that are no valid regional number.
MalformedPhones == {phone_short, phone_letters}

\* The stored documents whose uid is the lowercased identifier.
RecordsOf(coll, uid) == {i \in 1..Len(coll) : coll[i].uid = Lower(uid)}

\* The phone and img fields of the documents of coll are those of old.
SamePhoneImg(old, coll) ==
    \A i \in 1..Len(old) :
        /\ i <= Len(coll)
        /\ coll[i].phone = old[i].phone
        /\ coll[i].img = old[i].img

PhoneAllowed(r) == r.user.role \in {role_cc, role_club} \/ r.user.uid = r.uid

DataAllowed(r) == r.user.role = role_cc \/ r.user.uid = r.uid

------------------------------------------------------------------------------
\* C1: an updateRole call by an authenticated caller whose role is not cc
\* fails as forbidden, whatever the target, role and secret, and leaves the
\* collection as it was.
C1_NonAdminRoleUpdateForbidden ==
    [][(/\ last'.op = "updateRole"
        /\ Authenticated(last'.user)
        /\ last'.user.role # role_cc)
       => (last'.result = "Forbidden" /\ users' = users)]_vars

C1_Witness ==
    /\ last.op = "updateRole"
    /\ Authenticated(last.user)
    /\ last.user.role = role_club
    /\ last.secret = inter_communication_secret
    /\ last.result = "Forbidden"
    /\ Len(users) > 0

C3_Original ==
    [][(last'.op = "userMeta" /\ last'.result = "Returned")
       => LET target == last'.ret[1].uid
              stored == find_one(users', target).phone
              allowed ==
                  /\ Authenticated(last'.user)
                  /\ \/ last'.user.role \in
                           {role_cc, role_slo, role_slc, role_club}
                     \/ last'.user.uid = target
          IN  /\ allowed => last'.ret[1].phone = stored
              /\ ~allowed => last'.ret[1].phone = None
              /\ SamePhoneImg(users, users')]_vars

\* C4 as stated: usersByRole returns records only to a cc caller or to a
\* caller whose supplied secret equals the configured one; everyone else,
\* a caller without identity and without secret included, gets the
\* invalid-secret error and no records.
C4_Original ==
    last.op = "usersByRole"
    => LET allowed ==
               \/ Authenticated(last.user) /\ last.user.role = role_cc
               \/ last.secret # None /\ last.secret = inter_communication_secret
       IN  /\ last.result = "Returned" => allowed
           /\ ~allowed => (last.result = "InvalidSecret" /\ last.ret = <<>>)

\* C5 as stated: a cc caller's updateRole succeeds when no secret is
\* configured or the supplied secret equals the configured one, and fails
\* with the invalid-secret error, the collection unchanged, exactly when a
\* secret is configured and the supplied one is absent or different.
C5_Original ==
    [][(/\ last'.op = "updateRole"
        /\ Authenticated(last'.user)
        /\ last'.user.role = role_cc)
       => LET denied ==
                  /\ inter_communication_secret # None
                  /\ last'.secret # inter_communication_secret
          IN  /\ denied => (last'.result = "InvalidSecret" /\ users' = users)
              /\ ~denied => last'.result = "True"]_vars

\* C6 as stated: the role of every stored record is one of public, club,
\* cc, slc, slo.
C6_Original ==
    \A i \in 1..Len(users) :
        users[i].role \in {role_public, role_club, role_cc, role_slc, role_slo}

\* C7 as stated: every stored uid is lowercase and no two stored records
\* have the same uid.
C7_Original ==
    /\ \A i \in 1..Len(users) : users[i].uid = Lower(users[i].uid)
    /\ \A i, j \in 1..Len(users) : users[i].uid = users[j].uid => i = j

\* C8 as stated: after a write that returned true a record of the target
\* exists and holds the requested values, and a record that did not exist
\* before is the default record with the written fields replaced.
C8_Original ==
    [][(/\ last'.op \in {"updateRole", "updateUserPhone", "updateUserData"}
        /\ last'.result = "True")
       => /\ RecordsOf(users', last'.uid) # {}
          /\ \A i \in RecordsOf(users', last'.uid) :
                /\ last'.op = "updateRole" => users'[i].role = last'.role
                /\ last'.op = "updateUserPhone" => users'[i].phone = last'.phone
                /\ last'.op = "updateUserData" =>
                       /\ users'[i].phone = last'.phone
                       /\ users'[i].img = last'.img
                /\ RecordsOf(users, last'.uid) = {} =>
                       /\ last'.op # "updateRole" => users'[i].role = role_public
                       /\ last'.op = "updateRole" =>
                              users'[i].img = None /\ users'[i].phone = None
                       /\ last'.op = "updateUserPhone" => users'[i].img = None]_vars

\* C9 as stated: an updateUserPhone or updateUserData call with a malformed
\* phone fails with the invalid-phone error for every caller and changes no
\* field of any record.
C9_Original ==
    [][(/\ last'.op \in {"updateUserPhone", "updateUserData"}
        /\ last'.phone \in MalformedPhones)
       => (last'.result = "InvalidPhone" /\ users' = users)]_vars

\* C9 as amended: such a call never succeeds and changes no field of any
\* record (the img of updateUserData included); the error is the
\* invalid-phone error when the caller is authenticated and, for
\* updateUserData, is cc or the owner; a caller without identity gets the
\* not-logged-in error, and updateUserData refuses any other caller as
\* forbidden before it validates.
C9_MalformedPhoneWritesNothing ==
    [][(/\ last'.op \in {"updateUserPhone", "updateUserData"}
        /\ last'.phone \in MalformedPhones)
       => /\ users' = users
          /\ last'.result =
               IF ~Authenticated(last'.user) THEN "NotLoggedIn"
               ELSE IF last'.op = "updateUserData" /\ ~DataAllowed(last')
               THEN "Forbidden"
               ELSE "InvalidPhone"]_vars

C9_Witness ==
    /\ last.op = "updateUserData"
    /\ Authenticated(last.user)
    /\ DataAllowed(last)
    /\ last.phone \in MalformedPhones
    /\ last.img = img_url
    /\ last.result = "InvalidPhone"
    /\ \E i \in RecordsOf(users, last.uid) : users[i].img = None

\* C10 as stated: every stored phone is the canonical normalized form of
\* the number, so two spellings of one number are stored alike.
C10_Original ==
    \A i \in 1..Len(users) :
        users[i].phone # None =>
            users[i].phone = format_number(NationalNumber(users[i].phone))

\* The lowercased identifier a userMeta request looked up.
MetaTarget(r) == Lower(ResolveTarget(r.user, r.uid))

\* r is a userMeta request that resolved an identifier.
MetaLookup(r) == r.op = "userMeta" /\ r.result # "Null"

\* C11 as stated: of two successive userMeta calls for one identifier, in
\* any letter case and by any callers, the second inserts nothing and
\* changes no stored role, img or phone, and exactly one record of the
\* lowercased identifier is stored afterwards.
C11_Original ==
    [][(/\ MetaLookup(last)
        /\ MetaLookup(last')
        /\ MetaTarget(last) = MetaTarget(last'))
       => /\ users' = users
          /\ Cardinality(Matching(users', "uid", MetaTarget(last'))) = 1]_vars

------------------------------------------------------------------------------
\* Concurrent requests. Each find_one, insert_one and update_one is one
\* atomic step of the store; the steps of requests in progress interleave.
\* The requests are userMeta calls and updateRole calls that passed the
\* checks of the caller and the secret, all for one identifier.

\* Number of requests in progress at once.
NumRequests == 2

RaceOps == {"userMeta", "updateRole"}

Request(op, uid) ==
    [op |-> op, uid |-> uid, pc |-> "find", found |-> FALSE,
     result |-> "pending"]

\* The uid a request looks up: userMeta lowercases it first, updateRole
\* does not.
LookupKey(r) == IF r.op = "userMeta" THEN Lower(r.uid) ELSE r.uid

\* Where a request goes once its record is known to exist.
AfterRecord(r) ==
    IF r.op = "userMeta"
    THEN [r EXCEPT !.pc = "done", !.result = "Returned"]
    ELSE [r EXCEPT !.pc = "update"]

\* A unique index on uid rejects a document whose uid is already stored.
DuplicateKey(coll, doc) == unique_index /\ Found(coll, doc.uid)

InitRace ==
    /\ users = <<>>
    /\ inter_communication_secret \in SecretConfigs
    /\ last = Response("init", EmptyUser, None, None, None, None, None,
                       "init", <<>>)
    /\ unique_index \in BOOLEAN
    /\ \E uid \in TargetUids :
           requests \in [1..NumRequests -> {Request(op, uid) : op \in RaceOps}]
    /\ listing = NoListing

\* found_user = db.users.find_one(...)
RaceFind(n) ==
    /\ requests[n].pc = "find"
    /\ requests' =
         [requests EXCEPT ![n] =
            IF Found(users, LookupKey(@))
            THEN AfterRecord([@ EXCEPT !.found = TRUE])
            ELSE [@ EXCEPT !.pc = "insert"]]
    /\ UNCHANGED <<users, inter_communication_secret, last, unique_index,
                   listing>>

\* db.users.insert_one(jsonable_encoder(User(uid=...))): the exception of a
\* rejected insert is not caught and ends the request.
RaceInsert(n) ==
    /\ requests[n].pc = "insert"
    /\ IF DuplicateKey(users, NewUser(requests[n].uid))
       THEN /\ requests' =
                 [requests EXCEPT ![n].pc = "failed",
                                  ![n].result = "DuplicateKeyError"]
            /\ UNCHANGED users
       ELSE /\ users' = insert_one(users, NewUser(requests[n].uid))
            /\ requests' = [requests EXCEPT ![n] = AfterRecord(@)]
    /\ UNCHANGED <<inter_communication_secret, last, unique_index, listing>>

\* db.users.update_one({"uid": ...}, {"$set": {"role": ...}})
RaceUpdate(n) ==
    /\ requests[n].pc = "update"
    /\ users' = update_one(users, requests[n].uid, [role |-> role_club])
    /\ requests' = [requests EXCEPT ![n].pc = "done", ![n].result = "True"]
    /\ UNCHANGED <<inter_communication_secret, last, unique_index, listing>>

NextRace ==
    \/ \E n \in 1..NumRequests : RaceFind(n)
    \/ \E n \in 1..NumRequests : RaceInsert(n)
    \/ \E n \in 1..NumRequests : RaceUpdate(n)

SpecRace == InitRace /\ [][NextRace]_vars

\* C12 as stated: when the concurrent requests have all found the
\* identifier absent and gone on to insert, then once they have ended
\* exactly one record of the identifier is stored and no request has failed.
C12_Original ==
    (\A n \in DOMAIN requests :
        /\ requests[n].pc \in {"done", "failed"}
        /\ ~requests[n].found)
    => /\ \A n \in DOMAIN requests :
            Cardinality(RecordsOf(users, requests[n].uid)) = 1
       /\ \A n \in DOMAIN requests : requests[n].pc = "done"

------------------------------------------------------------------------------
\* usersByList: the loop that aligns the entries of the directory with the
\* identifiers asked for.

\* Longest list of identifiers asked for.
MaxInputs == 3

uid_carol == <<"c", "a">>

\* Identifiers a list may name.
ListUids == {uid_alice, uid_bob, uid_carol}

\* The entry the directory holds for uid: its attributes.
DirectoryEntry(uid) ==
    [uid |-> uid, cn |-> <<uid, <<"x">>>>, mail |-> uid \o <<"@">>]

\* get_profile: the first token of the common name is the first name, the
\* rest the last name; the mail attribute is the email.
get_profile(entry) ==
    [firstName |-> entry.cn[1], lastName |-> entry.cn[2],
     email |-> entry.mail]

\* None in a List[Optional[ProfileType]]: no profile has these fields empty.
NoProfile == [firstName |-> None, lastName |-> None, email |-> None]

\* The sequences without repetition over the elements of S.
Arrangements(S) ==
    {q \in UNION {[1..n -> S] : n \in 0..Cardinality(S)} :
        \A a, b \in 1..Len(q) : q[a] = q[b] => a = b}

\* ldap_search of the OR-filter over the identifiers: each entry of the
\* directory at most once, some identifiers without entry, in any order.
ldap_search(userInputs) ==
    {[k \in 1..Len(q) |-> DirectoryEntry(q[k])] :
        q \in Arrangements({userInputs[k] : k \in 1..Len(userInputs)})}

\* list.index(uid): the first position holding uid.
IndexOf(seq, x) ==
    CHOOSE k \in 1..Len(seq) : seq[k] = x /\ \A j \in 1..(k - 1) : seq[j] # x

\* list.pop(index)
Pop(seq, k) == SubSeq(seq, 1, k - 1) \o SubSeq(seq, k + 1, Len(seq))

InitList ==
    /\ users = <<>>
    /\ inter_communication_secret \in SecretConfigs
    /\ last = Response("init", EmptyUser, None, None, None, None, None,
                       "init", <<>>)
    /\ requests = <<>>
    /\ unique_index = FALSE
    /\ \E userInputs \in UNION {[1..n -> ListUids] : n \in 0..MaxInputs} :
       \E results \in ldap_search(userInputs) :
           listing =
               [userInputs |-> userInputs,
                searched |-> results,
                results |-> results,
                resultUids |-> [k \in 1..Len(results) |-> results[k].uid],
                profiles |-> <<>>,
                i |-> 1,
                returned |-> FALSE]

\* One pass of "for userInput in userInputs".
usersByList_iterate ==
    /\ listing.i <= Len(listing.userInputs)
    /\ LET uid == listing.userInputs[listing.i]
       IN  IF \E k \in 1..Len(listing.resultUids) : listing.resultUids[k] = uid
           THEN LET index == IndexOf(listing.resultUids, uid)
                IN  listing' =
                        [listing EXCEPT
                           !.profiles =
                               Append(@, get_profile(listing.results[index])),
                           !.results = Pop(@, index),
                           !.resultUids = Pop(@, index),
                           !.i = @ + 1]
           ELSE listing' =
                    [listing EXCEPT !.profiles = Append(@, NoProfile),
                                    !.i = @ + 1]
    /\ UNCHANGED <<users, inter_communication_secret, last, requests,
                   unique_index>>

\* return profiles
usersByList_return ==
    /\ listing.i > Len(listing.userInputs)
    /\ ~listing.returned
    /\ listing' = [listing EXCEPT !.returned = TRUE]
    /\ UNCHANGED <<users, inter_communication_secret, last, requests,
                   unique_index>>

NextList ==
    \/ usersByList_iterate
    \/ usersByList_return

SpecList == InitList /\ [][NextList]_vars

\* The entries the directory returned for uid.
EntriesFor(searched, uid) ==
    {k \in 1..Len(searched) : searched[k].uid = uid}

\* C13 as stated: the list returned is as long as the list of identifiers,
\* repeated identifiers included, and its i-th element is the profile of
\* the entry the directory returned for the i-th identifier, or null when
\* it returned none.
C13_Original ==
    listing.returned
    => /\ Len(listing.profiles) = Len(listing.userInputs)
       /\ \A k \in 1..Len(listing.userInputs) :
            LET hits == EntriesFor(listing.searched, listing.userInputs[k])
            IN  /\ hits = {} => listing.profiles[k] = NoProfile
                /\ \A h \in hits :
                     listing.profiles[k] = get_profile(listing.searched[h])

====
